---------------------------- MODULE Spec2Model ----------------------------
(***************************************************************************)
(* State-machine model of the sunxi CAN controller driver (sunxi_can.c).   *)
(*                                                                         *)
(* Machine words are modelled as sets of bit positions (a subset of        *)
(* 0..31), so that the C operators &, |, <<, >> and the truncation to      *)
(* uint8_t keep their exact 32-bit meaning.                                *)
(***************************************************************************)
EXTENDS Integers, Sequences, FiniteSets, TLC

(***************************************************************************)
(* Words                                                                   *)
(***************************************************************************)
Bits32 == 0..31

Pow2(k) == 2 ^ k

\* the word whose value is n (n < 2^31)
W(n) == {b \in 0..30 : (n \div Pow2(b)) % 2 = 1}

RECURSIVE Val(_)
\* the value of a word that has no bit above 30
Val(w) == IF w = {} THEN 0
          ELSE LET b == CHOOSE x \in w : TRUE IN Pow2(b) + Val(w \ {b})

And(a, b) == a \cap b
Or(a, b) == a \cup b
Shl(a, k) == {b + k : b \in a} \cap Bits32
Shr(a, k) == {b - k : b \in {x \in a : x >= k}}
Not32(a) == Bits32 \ a
U8(a) == a \cap (0..7)
\* u32 subtraction of one from the value n >= 0 of a small field (0 - 1 wraps)
SubOne(n) == IF n = 0 THEN Bits32 ELSE W(n - 1)

Min(a, b) == IF a < b THEN a ELSE b


(***************************************************************************)
(* Register bit layout (sunxi_can.h).  The header is not part of the       *)
(* sources at hand; the layout below follows the description of the        *)
(* registers: independent flag bits for every condition.                   *)
(***************************************************************************)
\* mode select register
RESET_MODE == {0}
LISTEN_ONLY_MODE == {1}
LOOPBACK_MODE == {2}
\* command register
TRANS_REQ == {0}
RELEASE_RBUF == {2}
CLEAR_DOVERRUN == {3}
\* status register
RBUF_RDY == {0}
TBUF_RDY == {2}
ERR_STA == {6}
BUS_OFF == {7}
ERR_SEG_CODE == 16..20
ERR_DIR == {21}
BIT_ERR == {22}
FORM_ERR == {23}
STUFF_ERR == {24}
\* interrupt register
RBUF_VLD == {0}
TBUF_VLD == {1}
ERR_WRN == {2}
DATA_ORUNI == {3}
WAKEUP == {4}
ERR_PASSIVE == {5}
ARB_LOST == {6}
BUS_ERR == {7}
\* interrupt enable register
BERR_IRQ_EN == {7}
\* iteration bound of the interrupt dispatcher
SUNXI_CAN_MAX_IRQ == 20

(***************************************************************************)
(* Constants of the CAN core the driver is written against                 *)
(* (linux/can.h, linux/can/error.h, linux/can/netlink.h).                  *)
(***************************************************************************)
CAN_EFF_FLAG == {31}
CAN_RTR_FLAG == {30}
CAN_ERR_FLAG == {29}
CAN_ERR_DLC == 8
CAN_ERR_LOSTARB == {1}
CAN_ERR_CRTL == {2}
CAN_ERR_PROT == {3}
CAN_ERR_BUSOFF == {6}
CAN_ERR_BUSERROR == {7}
CAN_ERR_CRTL_RX_OVERFLOW == {0}
CAN_ERR_CRTL_RX_WARNING == {2}
CAN_ERR_CRTL_TX_WARNING == {3}
CAN_ERR_CRTL_RX_PASSIVE == {4}
CAN_ERR_CRTL_TX_PASSIVE == {5}
CAN_ERR_PROT_UNSPEC == {}
CAN_ERR_PROT_BIT == {0}
CAN_ERR_PROT_FORM == {1}
CAN_ERR_PROT_STUFF == {2}
CAN_ERR_PROT_TX == {7}
CAN_CTRLMODE_LOOPBACK == {0}
CAN_CTRLMODE_LISTENONLY == {1}
CAN_CTRLMODE_3_SAMPLES == {2}
CAN_CTRLMODE_BERR_REPORTING == {4}
\* enum can_state
CAN_STATE_ERROR_ACTIVE == "ErrorActive"
CAN_STATE_ERROR_WARNING == "ErrorWarning"
CAN_STATE_ERROR_PASSIVE == "ErrorPassive"
CAN_STATE_BUS_OFF == "BusOff"
CAN_STATE_STOPPED == "Stopped"
\* get_can_dlc(): a length code above 8 reads as 8
get_can_dlc(i) == Min(Val(i), 8)

(***************************************************************************)
(* Bit-timing encoder: the value sunxi_can_set_bittiming computes.         *)
(***************************************************************************)
\* a shift of the sjw field by 13, one bit short of its place
BittimingCfgShiftSlip(bt, ctrlmode) ==
    LET cfg == Or(Or(Or(And(SubOne(bt.brp), W(1023)),
                        Shl(And(SubOne(bt.sjw), W(3)), 13)),
                     Shl(And(SubOne(bt.prop_seg + bt.phase_seg1), W(15)), 16)),
                  Shl(And(SubOne(bt.phase_seg2), W(7)), 20))
    IN  IF And(ctrlmode, CAN_CTRLMODE_3_SAMPLES) # {}
        THEN Or(cfg, W(8388608)) ELSE cfg

BittimingCfg(bt, ctrlmode) ==
    LET cfg == Or(Or(Or(And(SubOne(bt.brp), W(1023)),
                        Shl(And(SubOne(bt.sjw), W(3)), 14)),
                     Shl(And(SubOne(bt.prop_seg + bt.phase_seg1), W(15)), 16)),
                  Shl(And(SubOne(bt.phase_seg2), W(7)), 20))
    IN  IF And(ctrlmode, CAN_CTRLMODE_3_SAMPLES) # {}
        THEN Or(cfg, W(8388608)) ELSE cfg

(***************************************************************************)
(* Frame codec.  A frame is [can_id, can_dlc, data]: can_id a word with    *)
(* the EFF/RTR/ERR flags in bits 31..29, can_dlc a number, data eight      *)
(* bytes (words within 0..7).  The buffer is the sequence of the thirteen  *)
(* buffer registers CAN_BUF0..CAN_BUF12 (index 1 is CAN_BUF0).             *)
(***************************************************************************)
NBUF == 13
ZeroData == [i \in 1..8 |-> {}]

\* registers base+0 .. base+dlc-1 (0-based register numbers) take the data
PutData(buf, base, cf) ==
    [r \in 1..NBUF |->
        IF r - 1 >= base /\ r - 1 < base + cf.can_dlc /\ r - 1 - base < 8
        THEN cf.data[r - base] ELSE buf[r]]

\* the standard identifier written one bit off (id >> 2 instead of id >> 3)
EncodeFrameSffSlip(cf, buf) ==
    LET id == cf.can_id
        temp == Or(Shl(Shr(id, 30), 6), U8(W(cf.can_dlc)))
        b0 == [buf EXCEPT ![1] = temp]
    IN  IF And(id, CAN_EFF_FLAG) # {}
        THEN PutData([b0 EXCEPT ![2] = And(W(255), Shr(id, 21)),
                                ![3] = And(W(255), Shr(id, 13)),
                                ![4] = And(W(255), Shr(id, 5)),
                                ![5] = Shl(And(id, W(31)), 3)], 5, cf)
        ELSE PutData([b0 EXCEPT ![2] = And(W(255), Shr(id, 2)),
                                ![3] = Shl(And(id, W(7)), 5)], 3, cf)

\* what sunxi_can_start_xmit writes to the buffer registers
EncodeFrame(cf, buf) ==
    LET id == cf.can_id
        temp == Or(Shl(Shr(id, 30), 6), U8(W(cf.can_dlc)))
        b0 == [buf EXCEPT ![1] = temp]
    IN  IF And(id, CAN_EFF_FLAG) # {}
        THEN PutData([b0 EXCEPT ![2] = And(W(255), Shr(id, 21)),
                                ![3] = And(W(255), Shr(id, 13)),
                                ![4] = And(W(255), Shr(id, 5)),
                                ![5] = Shl(And(id, W(31)), 3)], 5, cf)
        ELSE PutData([b0 EXCEPT ![2] = And(W(255), Shr(id, 3)),
                                ![3] = Shl(And(id, W(7)), 5)], 3, cf)

GetData(buf, base, dlc) ==
    [i \in 1..8 |-> IF i <= dlc THEN U8(buf[base + i]) ELSE {}]

\* a decoder that reads the data bytes of a remote frame as well
DecodeFrameRtrSlip(buf) ==
    LET fi == U8(buf[1])
        dlc == get_can_dlc(And(fi, W(15)))
        rtr == And(Shr(fi, 6), W(1)) # {}
    IN  IF Shr(fi, 7) # {}
        THEN [can_id |-> Or(Or(Or(Or(Or(Shl(buf[2], 21), Shl(buf[3], 13)),
                                     Shl(buf[4], 5)),
                                  And(Shr(buf[5], 3), W(31))),
                               CAN_EFF_FLAG),
                            IF rtr THEN CAN_RTR_FLAG ELSE {}),
              can_dlc |-> dlc,
              data |-> GetData(buf, 5, dlc)]
        ELSE [can_id |-> Or(Or(Shl(buf[2], 3), And(Shr(buf[3], 5), W(7))),
                            IF rtr THEN CAN_RTR_FLAG ELSE {}),
              can_dlc |-> dlc,
              data |-> GetData(buf, 3, dlc)]

\* the frame sunxi_can_rx builds from the buffer registers
DecodeFrame(buf) ==
    LET fi == U8(buf[1])
        dlc == get_can_dlc(And(fi, W(15)))
        rtr == And(Shr(fi, 6), W(1)) # {}
    IN  IF Shr(fi, 7) # {}
        THEN [can_id |-> Or(Or(Or(Or(Or(Shl(buf[2], 21), Shl(buf[3], 13)),
                                     Shl(buf[4], 5)),
                                  And(Shr(buf[5], 3), W(31))),
                               CAN_EFF_FLAG),
                            IF rtr THEN CAN_RTR_FLAG ELSE {}),
              can_dlc |-> dlc,
              data |-> IF rtr THEN ZeroData ELSE GetData(buf, 5, dlc)]
        ELSE [can_id |-> Or(Or(Shl(buf[2], 3), And(Shr(buf[3], 5), W(7))),
                            IF rtr THEN CAN_RTR_FLAG ELSE {}),
              can_dlc |-> dlc,
              data |-> IF rtr THEN ZeroData ELSE GetData(buf, 3, dlc)]

(***************************************************************************)
(* Error State Machine: what one call of sunxi_can_err computes from the   *)
(* interrupt-source and status snapshots.                                  *)
(***************************************************************************)
\* C index k of cf->data[] as an index of the model's sequence
D(k) == k + 1

\* alloc_can_err_skb(): a zeroed error frame
ErrFrame0 == [can_id |-> CAN_ERR_FLAG, can_dlc |-> CAN_ERR_DLC, data |-> ZeroData]

\* the classification with the form error tested before the bit error
ProtSubtypeFormFirst(ecc) ==
    IF And(ecc, FORM_ERR) # {} THEN [d2 |-> CAN_ERR_PROT_FORM, d3 |-> {}]
    ELSE IF And(ecc, BIT_ERR) # {} THEN [d2 |-> CAN_ERR_PROT_BIT, d3 |-> {}]
    ELSE IF And(ecc, STUFF_ERR) # {} THEN [d2 |-> CAN_ERR_PROT_STUFF, d3 |-> {}]
    ELSE [d2 |-> CAN_ERR_PROT_UNSPEC, d3 |-> U8(Shr(And(ecc, ERR_SEG_CODE), 16))]

\* the protocol-error subtype (data[2]) and location (data[3]) of a bus error
ProtSubtype(ecc) ==
    IF And(ecc, BIT_ERR) # {} THEN [d2 |-> CAN_ERR_PROT_BIT, d3 |-> {}]
    ELSE IF And(ecc, FORM_ERR) # {} THEN [d2 |-> CAN_ERR_PROT_FORM, d3 |-> {}]
    ELSE IF And(ecc, STUFF_ERR) # {} THEN [d2 |-> CAN_ERR_PROT_STUFF, d3 |-> {}]
    ELSE [d2 |-> CAN_ERR_PROT_UNSPEC, d3 |-> U8(Shr(And(ecc, ERR_SEG_CODE), 16))]

\* a comparison that counts equal error counts as transmit-side
TxSideGe(txerr, rxerr) == Val(txerr) >= Val(rxerr)

\* txerr > rxerr picks the transmit-side subtype
TxSide(txerr, rxerr) == Val(txerr) > Val(rxerr)

\* the mode after the error-warning and error-passive bits
ErrNextState(isrc, status, state) ==
    LET s1 == IF And(isrc, ERR_WRN) # {}
              THEN IF And(status, BUS_OFF) # {} THEN CAN_STATE_BUS_OFF
                   ELSE IF And(status, ERR_STA) # {} THEN CAN_STATE_ERROR_WARNING
                   ELSE CAN_STATE_ERROR_ACTIVE
              ELSE state
    IN  IF And(isrc, ERR_PASSIVE) # {}
        THEN IF And(status, ERR_STA) # {} THEN CAN_STATE_ERROR_PASSIVE
             ELSE CAN_STATE_ERROR_ACTIVE
        ELSE s1

\* can_bus_off() is called for every error-warning bit seen with bus-off status
ErrBusOff(isrc, status) ==
    And(isrc, ERR_WRN) # {} /\ And(status, BUS_OFF) # {}

\* sunxi_can_err: uint8_t rxerr = (readl(CAN_ERRC_ADDR) >> 16) & 0xFF;
\* uint8_t txerr = readl(CAN_ERRC_ADDR) & 0xFF
ErrCounters(errc) ==
    [txerr |-> And(errc, W(255)), rxerr |-> And(Shr(errc, 16), W(255))]

\* sunxi_can_get_berr_counter: bec->txerr = readl(CAN_ERRC_ADDR) & 0x000F;
\* bec->rxerr = (readl(CAN_ERRC_ADDR) & 0x0F00) >> 16
sunxi_can_get_berr_counter(errc) ==
    [txerr |-> And(errc, W(15)), rxerr |-> Shr(And(errc, W(3840)), 16)]

\* isrc, status: the uint8_t snapshots; state: priv->can.state read at entry;
\* cur: priv->can.state read at the final comparison; ecc, alc: the status
\* register as read for the error code and the arbitration-lost capture;
\* errc: the error counter register.
sunxi_can_err(isrc, status, state, cur, ecc, alc, errc) ==
    LET orun == And(isrc, DATA_ORUNI) # {}
        wrn == And(isrc, ERR_WRN) # {}
        berr == And(isrc, BUS_ERR) # {}
        arb == And(isrc, ARB_LOST) # {}
        boff == ErrBusOff(isrc, status)
        st == ErrNextState(isrc, status, state)
        cf1 == IF orun
               THEN [ErrFrame0 EXCEPT !.can_id = Or(@, CAN_ERR_CRTL),
                                      !.data[D(1)] = CAN_ERR_CRTL_RX_OVERFLOW]
               ELSE ErrFrame0
        cf2 == IF boff THEN [cf1 EXCEPT !.can_id = Or(@, CAN_ERR_BUSOFF)] ELSE cf1
        sub == ProtSubtype(ecc)
        cf3 == IF berr
               THEN [cf2 EXCEPT
                       !.can_id = Or(@, Or(CAN_ERR_PROT, CAN_ERR_BUSERROR)),
                       !.data[D(2)] = Or(Or(@, sub.d2),
                                         IF And(ecc, ERR_DIR) = {}
                                         THEN CAN_ERR_PROT_TX ELSE {}),
                       !.data[D(3)] = IF sub.d2 = CAN_ERR_PROT_UNSPEC
                                      THEN sub.d3 ELSE @]
               ELSE cf2
        cf4 == IF arb
               THEN [cf3 EXCEPT !.can_id = Or(@, CAN_ERR_LOSTARB),
                                !.data[D(0)] = U8(Shr(And(alc, W(31)), 8))]
               ELSE cf3
        chg == st # cur /\ st \in {CAN_STATE_ERROR_WARNING, CAN_STATE_ERROR_PASSIVE}
        rxerr == ErrCounters(errc).rxerr
        txerr == ErrCounters(errc).txerr
        cf5 == IF chg
               THEN [cf4 EXCEPT
                       !.can_id = Or(@, CAN_ERR_CRTL),
                       !.data[D(1)] =
                          IF st = CAN_STATE_ERROR_WARNING
                          THEN IF TxSide(txerr, rxerr) THEN CAN_ERR_CRTL_TX_WARNING
                               ELSE CAN_ERR_CRTL_RX_WARNING
                          ELSE IF TxSide(txerr, rxerr) THEN CAN_ERR_CRTL_TX_PASSIVE
                               ELSE CAN_ERR_CRTL_RX_PASSIVE,
                       !.data[D(6)] = txerr,
                       !.data[D(7)] = rxerr]
               ELSE cf4
    IN  [cf |-> cf5,
         state |-> st,
         bus_off |-> IF boff THEN 1 ELSE 0,
         clear_overrun |-> orun,
         rx_over_errors |-> IF orun THEN 1 ELSE 0,
         rx_errors |-> (IF orun THEN 1 ELSE 0) + (IF berr THEN 1 ELSE 0),
         tx_errors |-> IF arb THEN 1 ELSE 0,
         bus_error |-> IF berr THEN 1 ELSE 0,
         arbitration_lost |-> IF arb THEN 1 ELSE 0,
         error_warning |-> IF chg /\ st = CAN_STATE_ERROR_WARNING THEN 1 ELSE 0,
         error_passive |-> IF chg /\ st = CAN_STATE_ERROR_PASSIVE THEN 1 ELSE 0]

(***************************************************************************)
(* State                                                                   *)
(***************************************************************************)
VARIABLES
    reg,    \* the controller's registers, as the CPU reads and writes them
    hw,     \* the controller's own state and the behaviour of this run's hardware
    priv,   \* struct sunxi_can_priv (can.state, can.ctrlmode, can.bittiming, ...)
    dev,    \* struct net_device: queue, statistics, echo skb, delivered frames
    pc,     \* where each context stands
    loc,    \* each context's local variables
    obs,    \* history recorded for the properties (no part of the driver)
    fin,    \* input of the pure function under check
    fout    \* its output

vars == <<reg, hw, priv, dev, pc, loc, obs, fin, fout>>

\* the transmit context, the interrupt context, the configuration context
Ctx == {"tx", "irq", "cfg"}

NoFrame == [can_id |-> {}, can_dlc |-> 0, data |-> ZeroData]
ZeroBuf == [r \in 1..NBUF |-> {}]

\* bound of the two mode polls (the loops of set_reset_mode, set_normal_mode)
MODE_POLL_MAX == 100

(***************************************************************************)
(* Bounds of the model                                                     *)
(***************************************************************************)
\* rounds a mode poll may go after its first one on a working controller
MaxRepoll == 1
\* frames the hardware receive FIFO holds
MaxRxFifo == 1
\* events the hardware raises on its own (frames received, error conditions)
MaxHwEvents == 1
\* invocations of the interrupt dispatcher
MaxIrqCalls == 1
\* transmit calls of the network stack
MaxXmit == 1
\* calls of the configuration context (mode start, timing reprogram)
MaxCfgCalls == 1
\* invocations of the interrupt dispatcher where a run is about several
MaxIrqRuns == 2

Stats0 ==
    [rx_packets |-> 0, rx_bytes |-> 0, tx_packets |-> 0, tx_bytes |-> 0,
     rx_errors |-> 0, tx_errors |-> 0, rx_over_errors |-> 0,
     bus_error |-> 0, error_warning |-> 0, error_passive |-> 0,
     arbitration_lost |-> 0]

\* no Error State Machine result
Err0 == [done |-> FALSE]

Loc0 ==
    [status |-> {}, i |-> 0, tmp |-> {}, ret |-> <<>>, val |-> {},
     cf |-> NoFrame, isrc |-> {}, n |-> 0, state |-> "", r |-> Err0, cfg |-> {}]

Call0 == [state |-> "", inten |-> {}, mode |-> {}, writes |-> 0]

Obs0 ==
    [call |-> [c \in Ctx |-> Call0],  \* snapshot at the entry of a mode poll
     acks |-> 0,                      \* acknowledge writes of this dispatcher call
     irq_calls |-> 0,                 \* dispatcher invocations so far
     irq_ret |-> "none",              \* how the last dispatcher call ended
     iters |-> 0,                     \* loop iterations of the last dispatcher call that returned
     xmits |-> 0,                     \* transmit calls so far
     requests |-> 0,                  \* transmit requests written to the command register
     retired |-> 0,                   \* TX-complete interrupts handled
     cfg_calls |-> 0,                 \* configuration calls so far
     btime_in_reset |-> TRUE,         \* the last bit-timing write found the reset bit set
     btime_writes |-> 0,              \* bit-timing writes so far
     rx_taken |-> 0,                  \* frames read from the receive buffer registers
     rx_released |-> 0,               \* release-receive-buffer commands written
     rx_nomem |-> FALSE,              \* the last call of sunxi_can_rx found no skb
     err |-> Err0]                    \* the Error State Machine call in progress: inputs and result

(***************************************************************************)
(* Hardware                                                                *)
(***************************************************************************)
\* readl(CAN_MSEL_ADDR): an unplugged controller reads as all ones
ReadMsel == IF hw.absent THEN Bits32 ELSE reg.msel

\* the status register: buffer flags follow the controller's state
ReadSta ==
    IF hw.absent THEN Bits32
    ELSE Or(Or(reg.sta \ Or(TBUF_RDY, RBUF_RDY),
               IF hw.tx_busy THEN {} ELSE TBUF_RDY),
            IF hw.rxq # <<>> THEN RBUF_RDY ELSE {})

\* the receive buffer window shows the frame at the head of the FIFO
ReadRxBuf == IF hw.rxq # <<>> THEN Head(hw.rxq) ELSE ZeroBuf

\* writel(v, CAN_MSEL_ADDR): `latch` tells whether the reset bit takes the
\* written value; the other bits always do
MselAfterWrite(v, latch) ==
    IF latch THEN v ELSE Or(v \ RESET_MODE, And(reg.msel, RESET_MODE))

\* the effect of one writel(v, CAN_MSEL_ADDR): an unplugged controller takes
\* none, a stuck mode latch keeps the reset bit as it is
WriteMsel(v) ==
    /\ reg' = IF hw.absent THEN reg
              ELSE [reg EXCEPT !.msel = MselAfterWrite(v, ~hw.mode_stuck)]
    /\ hw' = hw

(***************************************************************************)
(* Control flow                                                            *)
(***************************************************************************)
At(c, l) == pc[c] = l
Goto(c, l) == pc' = [pc EXCEPT ![c] = l]

\* loc' for context c with the fields of record `upd` replaced
Set(c, upd) ==
    loc' = [loc EXCEPT ![c] =
              [f \in DOMAIN loc[c] |-> IF f \in DOMAIN upd THEN upd[f] ELSE loc[c][f]]]

\* enter a subroutine at `entry`, to come back at `back`
CallSub(c, entry, back, upd) ==
    /\ Goto(c, entry)
    /\ Set(c, upd @@ [ret |-> <<back>> \o loc[c].ret])

\* return from a subroutine; a context that returns to "idle" has left its
\* operation, and its locals end
ReturnSub(c, upd) ==
    /\ Goto(c, Head(loc[c].ret))
    /\ IF Head(loc[c].ret) = "idle"
       THEN loc' = [loc EXCEPT ![c] = Loc0]
       ELSE Set(c, upd @@ [ret |-> Tail(loc[c].ret)])

\* exploration bound: on a controller whose mode latch works, a mode poll
\* goes round at most MaxRepoll times more after its first write (another
\* context that keeps writing the opposite mode could hold it for longer)
PollBudget(c) == hw.mode_stuck \/ loc[c].i <= MaxRepoll

(***************************************************************************)
(* set_reset_mode, run by context c                                        *)
(***************************************************************************)
\* uint32_t status = readl(CAN_MSEL_ADDR); i = 0
rst_entry(c) ==
    /\ At(c, "rst_entry")
    /\ Goto(c, "rst_check")
    /\ Set(c, [status |-> ReadMsel, i |-> 0])
    /\ obs' = [obs EXCEPT !.call[c] =
                 [state |-> priv.state, inten |-> reg.inten,
                  mode |-> And(reg.msel, Or(LOOPBACK_MODE, LISTEN_ONLY_MODE)),
                  writes |-> 0]]
    /\ UNCHANGED <<reg, hw, priv, dev, fin, fout>>

\* the loop test, the check of the reset bit, and the read of the register
\* for the read-modify-write that follows
rst_check(c) ==
    /\ At(c, "rst_check")
    /\ \/ /\ loc[c].i >= MODE_POLL_MAX
          /\ Goto(c, "rst_fail")
          /\ UNCHANGED <<loc, priv, obs>>
       \/ /\ loc[c].i < MODE_POLL_MAX
          /\ And(loc[c].status, RESET_MODE) # {}
          /\ priv' = [priv EXCEPT !.state = CAN_STATE_STOPPED]
          /\ ReturnSub(c, [status |-> {}, i |-> 0])
          /\ obs' = [obs EXCEPT !.call[c] = Call0]
       \/ /\ loc[c].i < MODE_POLL_MAX
          /\ And(loc[c].status, RESET_MODE) = {}
          /\ Goto(c, "rst_write")
          /\ Set(c, [tmp |-> ReadMsel])
          /\ UNCHANGED <<priv, obs>>
    /\ UNCHANGED <<reg, hw, dev, fin, fout>>

\* writel(readl(CAN_MSEL_ADDR) | RESET_MODE, CAN_MSEL_ADDR)
rst_write(c) ==
    /\ At(c, "rst_write")
    /\ PollBudget(c)
    /\ WriteMsel(Or(loc[c].tmp, RESET_MODE))
    /\ Goto(c, "rst_read")
    /\ Set(c, [tmp |-> {}])
    /\ obs' = [obs EXCEPT !.call[c].writes = @ + 1]
    /\ UNCHANGED <<priv, dev, fin, fout>>

\* a poll whose counter advances by two for each write
rst_read_skip(c) ==
    /\ At(c, "rst_read")
    /\ Goto(c, "rst_check")
    /\ Set(c, [status |-> ReadMsel, i |-> loc[c].i + 2])
    /\ UNCHANGED <<reg, hw, priv, dev, obs, fin, fout>>

\* udelay(10); status = readl(CAN_MSEL_ADDR); i++
rst_read(c) ==
    /\ At(c, "rst_read")
    /\ Goto(c, "rst_check")
    /\ Set(c, [status |-> ReadMsel, i |-> loc[c].i + 1])
    /\ UNCHANGED <<reg, hw, priv, dev, obs, fin, fout>>

\* netdev_err(dev, "setting SUNXI_CAN into reset mode failed!")
rst_fail(c) ==
    /\ At(c, "rst_fail")
    /\ ReturnSub(c, [status |-> {}, i |-> 0])
    /\ obs' = [obs EXCEPT !.call[c] = Call0]
    /\ UNCHANGED <<reg, hw, priv, dev, fin, fout>>

\* the steps of set_reset_mode on a controller whose mode latch works: the
\* poll never reaches its bound there
set_reset_mode(c) ==
    rst_entry(c) \/ rst_check(c) \/ rst_write(c) \/ rst_read(c)

(***************************************************************************)
(* set_normal_mode, run by context c                                       *)
(***************************************************************************)
\* unsigned char status = readl(CAN_MSEL_ADDR); i = 0
nrm_entry(c) ==
    /\ At(c, "nrm_entry")
    /\ Goto(c, "nrm_check")
    /\ Set(c, [status |-> U8(ReadMsel), i |-> 0])
    /\ obs' = [obs EXCEPT !.call[c] =
                 [state |-> priv.state, inten |-> reg.inten,
                  mode |-> And(reg.msel, Or(LOOPBACK_MODE, LISTEN_ONLY_MODE)),
                  writes |-> 0]]
    /\ UNCHANGED <<reg, hw, priv, dev, fin, fout>>

nrm_check(c) ==
    /\ At(c, "nrm_check")
    /\ \/ /\ loc[c].i >= MODE_POLL_MAX
          /\ Goto(c, "nrm_fail")
          /\ UNCHANGED <<loc, priv>>
       \/ /\ loc[c].i < MODE_POLL_MAX
          /\ And(loc[c].status, RESET_MODE) = {}
          /\ priv' = [priv EXCEPT !.state = CAN_STATE_ERROR_ACTIVE]
          /\ Goto(c, "nrm_inten")
          /\ UNCHANGED loc
       \/ /\ loc[c].i < MODE_POLL_MAX
          /\ And(loc[c].status, RESET_MODE) # {}
          /\ Goto(c, "nrm_write")
          /\ Set(c, [tmp |-> ReadMsel])
          /\ UNCHANGED priv
    /\ UNCHANGED <<reg, hw, dev, obs, fin, fout>>

\* the interrupt-enable value for the error-reporting flag
IntenFor(ctrlmode) ==
    IF And(ctrlmode, CAN_CTRLMODE_BERR_REPORTING) # {}
    THEN W(65535) ELSE And(W(65535), Not32(BERR_IRQ_EN))

\* the mode bit set after the reset bit has cleared: loopback, else
\* listen-only, else none
ModeBitFor(ctrlmode) ==
    IF And(ctrlmode, CAN_CTRLMODE_LOOPBACK) # {} THEN LOOPBACK_MODE
    ELSE IF And(ctrlmode, CAN_CTRLMODE_LISTENONLY) # {} THEN LISTEN_ONLY_MODE
    ELSE {}

\* enable interrupts; then the test of the loopback and listen-only flags,
\* and the read of the register for the read-modify-write that follows
nrm_inten(c) ==
    /\ At(c, "nrm_inten")
    /\ reg' = IF hw.absent THEN reg ELSE [reg EXCEPT !.inten = IntenFor(priv.ctrlmode)]
    /\ IF ModeBitFor(priv.ctrlmode) # {}
       THEN /\ Goto(c, "nrm_mode_wr")
            /\ Set(c, [tmp |-> ReadMsel, val |-> ModeBitFor(priv.ctrlmode)])
            /\ UNCHANGED obs
       ELSE /\ ReturnSub(c, [status |-> {}, i |-> 0])
            /\ obs' = [obs EXCEPT !.call[c] = Call0]
    /\ UNCHANGED <<hw, priv, dev, fin, fout>>

\* writel(readl(CAN_MSEL_ADDR) | LOOPBACK_MODE or LISTEN_ONLY_MODE, CAN_MSEL_ADDR)
nrm_mode_wr(c) ==
    /\ At(c, "nrm_mode_wr")
    /\ WriteMsel(Or(loc[c].tmp, loc[c].val))
    /\ ReturnSub(c, [status |-> {}, i |-> 0, tmp |-> {}, val |-> {}])
    /\ obs' = [obs EXCEPT !.call[c] = Call0]
    /\ UNCHANGED <<priv, dev, fin, fout>>

\* writel(readl(CAN_MSEL_ADDR) & (~RESET_MODE), CAN_MSEL_ADDR)
nrm_write(c) ==
    /\ At(c, "nrm_write")
    /\ PollBudget(c)
    /\ WriteMsel(And(loc[c].tmp, Not32(RESET_MODE)))
    /\ Goto(c, "nrm_read")
    /\ Set(c, [tmp |-> {}])
    /\ obs' = [obs EXCEPT !.call[c].writes = @ + 1]
    /\ UNCHANGED <<priv, dev, fin, fout>>

\* udelay(10); status = readl(CAN_MSEL_ADDR); i++
nrm_read(c) ==
    /\ At(c, "nrm_read")
    /\ Goto(c, "nrm_check")
    /\ Set(c, [status |-> U8(ReadMsel), i |-> loc[c].i + 1])
    /\ UNCHANGED <<reg, hw, priv, dev, obs, fin, fout>>

\* netdev_err(dev, "setting SUNXI_CAN into normal mode failed!")
nrm_fail(c) ==
    /\ At(c, "nrm_fail")
    /\ ReturnSub(c, [status |-> {}, i |-> 0])
    /\ obs' = [obs EXCEPT !.call[c] = Call0]
    /\ UNCHANGED <<reg, hw, priv, dev, fin, fout>>

\* the steps of set_normal_mode on a controller whose mode latch works
set_normal_mode(c) ==
    \/ nrm_entry(c) \/ nrm_check(c) \/ nrm_inten(c)
    \/ nrm_mode_wr(c) \/ nrm_write(c) \/ nrm_read(c)

\* the end of a mode poll that reached its bound
mode_timeout(c) == rst_fail(c) \/ nrm_fail(c)

(***************************************************************************)
(* sunxi_can_write_cmdreg(priv, loc[c].val), run by context c              *)
(***************************************************************************)
\* a lock that is taken without waiting for its holder
cmd_lock_nowait(c) ==
    /\ At(c, "cmd_lock")
    /\ priv' = [priv EXCEPT !.cmdreg_lock = c]
    /\ Goto(c, "cmd_write")
    /\ UNCHANGED <<reg, hw, dev, loc, obs, fin, fout>>

\* spin_lock_irqsave(&priv->cmdreg_lock, flags)
cmd_lock(c) ==
    /\ At(c, "cmd_lock")
    /\ priv.cmdreg_lock = "free"
    /\ priv' = [priv EXCEPT !.cmdreg_lock = c]
    /\ Goto(c, "cmd_write")
    /\ UNCHANGED <<reg, hw, dev, loc, obs, fin, fout>>

\* what the controller does with a command
HwCommand(val) ==
    IF hw.absent THEN hw
    ELSE [hw EXCEPT
            !.tx_busy = IF And(val, TRANS_REQ) # {} THEN TRUE ELSE @,
            !.rxq = IF And(val, RELEASE_RBUF) # {} /\ @ # <<>> THEN Tail(@) ELSE @]

\* writel(val, CAN_CMD_ADDR)
cmd_write(c) ==
    /\ At(c, "cmd_write")
    /\ reg' = IF hw.absent THEN reg ELSE [reg EXCEPT !.cmd = loc[c].val]
    /\ hw' = HwCommand(loc[c].val)
    /\ obs' = [obs EXCEPT
                 !.requests = IF And(loc[c].val, TRANS_REQ) # {} THEN @ + 1 ELSE @,
                 !.rx_released = IF And(loc[c].val, RELEASE_RBUF) # {} THEN @ + 1 ELSE @]
    /\ Goto(c, "cmd_unlock")
    /\ UNCHANGED <<priv, dev, loc, fin, fout>>

\* spin_unlock_irqrestore(&priv->cmdreg_lock, flags)
cmd_unlock(c) ==
    /\ At(c, "cmd_unlock")
    /\ priv' = [priv EXCEPT !.cmdreg_lock = "free"]
    /\ ReturnSub(c, [val |-> {}])
    /\ UNCHANGED <<reg, hw, dev, obs, fin, fout>>

sunxi_can_write_cmdreg(c) == cmd_lock(c) \/ cmd_write(c) \/ cmd_unlock(c)

(***************************************************************************)
(* sunxi_can_interrupt and what it calls (the interrupt context)           *)
(***************************************************************************)
ReadInt == IF hw.absent THEN Bits32 ELSE reg.int

\* sunxi_can_is_absent()
sunxi_can_is_absent == And(ReadMsel, W(255)) = W(255)

ErrorBits == Or(Or(Or(Or(DATA_ORUNI, ERR_WRN), BUS_ERR), ERR_PASSIVE), ARB_LOST)

AddStats(st, d) ==
    [f \in DOMAIN st |-> IF f \in DOMAIN d THEN st[f] + d[f] ELSE st[f]]

\* the dispatcher returns: its locals end
IrqReturn(how) ==
    /\ Goto("irq", "idle")
    /\ loc' = [loc EXCEPT !["irq"] = Loc0]
    /\ obs' = [obs EXCEPT !.irq_ret = how, !.iters = loc["irq"].n, !.rx_nomem = FALSE]

\* invocations of the dispatcher a run goes through
IrqCallLimit == IF fin.kind = "irqs" THEN fin.calls ELSE MaxIrqCalls

\* the hardware interrupt line calls the handler registered by request_irq
irq_enter ==
    /\ At("irq", "idle")
    /\ priv.irq_registered
    /\ ReadInt # {}
    /\ obs.irq_calls < IrqCallLimit
    /\ Goto("irq", "irq_loop")
    /\ Set("irq", [n |-> 0])
    /\ obs' = [obs EXCEPT !.irq_calls = @ + 1, !.acks = 0, !.irq_ret = "running",
                          !.iters = 0]
    /\ UNCHANGED <<reg, hw, priv, dev, fin, fout>>

\* while ((isrc = readl(CAN_INT_ADDR)) && (n < SUNXI_CAN_MAX_IRQ)) { n++; ... }
\* return (n) ? IRQ_HANDLED : IRQ_NONE
irq_loop ==
    /\ At("irq", "irq_loop")
    /\ LET isrc == U8(ReadInt)
       IN  IF isrc # {} /\ loc["irq"].n < SUNXI_CAN_MAX_IRQ
           THEN /\ Goto("irq", "irq_sta")
                /\ Set("irq", [isrc |-> isrc, n |-> loc["irq"].n + 1])
                /\ UNCHANGED obs
           ELSE IrqReturn(IF loc["irq"].n > 0 THEN "handled" ELSE "none")
    /\ UNCHANGED <<reg, hw, priv, dev, fin, fout>>

\* status = readl(CAN_STA_ADDR); if (sunxi_can_is_absent(priv)) return IRQ_NONE
irq_sta ==
    /\ At("irq", "irq_sta")
    /\ IF sunxi_can_is_absent
       THEN IrqReturn("absent")
       ELSE /\ Goto("irq", "irq_tx")
            /\ Set("irq", [status |-> U8(ReadSta)])
            /\ UNCHANGED obs
    /\ UNCHANGED <<reg, hw, priv, dev, fin, fout>>

\* the transmitted frame's length, read back from the transmit buffer
ReadRback == IF hw.absent THEN Bits32 ELSE reg.txbuf[1]

\* where the dispatcher goes with this interrupt source and status: into the
\* receive loop while (isrc & RBUF_VLD) and (status & RBUF_RDY), else to the
\* Error State Machine if an error bit is set, else to the acknowledge
AfterTx(isrc, status) ==
    IF And(isrc, RBUF_VLD) # {} /\ And(status, RBUF_RDY) # {} THEN "rx_alloc"
    ELSE IF And(isrc, ErrorBits) # {} THEN "err_entry"
    ELSE "irq_ack"

\* if (isrc & TBUF_VLD): transmission complete
irq_tx ==
    /\ At("irq", "irq_tx")
    /\ IF And(loc["irq"].isrc, TBUF_VLD) # {}
       THEN /\ dev' = [dev EXCEPT
                         !.stats = AddStats(@, [tx_bytes |-> Val(And(ReadRback, W(15))),
                                                tx_packets |-> 1]),
                         !.echo = NoFrame,
                         !.queue_stopped = FALSE]
            /\ obs' = [obs EXCEPT !.retired = @ + 1]
       ELSE UNCHANGED <<dev, obs>>
    /\ Goto("irq", AfterTx(loc["irq"].isrc, loc["irq"].status))
    /\ UNCHANGED <<reg, hw, priv, loc, fin, fout>>

\* a receive path that releases the buffer only for frames that carry data
rx_alloc_rtr_norelease ==
    /\ At("irq", "rx_alloc")
    /\ \/ /\ IF And(DecodeFrame(ReadRxBuf).can_id, CAN_RTR_FLAG) # {}
             THEN /\ Goto("irq", "rx_deliver")
                  /\ Set("irq", [cf |-> DecodeFrame(ReadRxBuf)])
             ELSE CallSub("irq", "cmd_lock", "rx_deliver",
                          [cf |-> DecodeFrame(ReadRxBuf), val |-> RELEASE_RBUF])
          /\ obs' = [obs EXCEPT !.rx_taken = @ + 1, !.rx_nomem = FALSE]
       \/ /\ Goto("irq", "rx_sta")
          /\ obs' = [obs EXCEPT !.rx_nomem = TRUE]
          /\ UNCHANGED loc
    /\ UNCHANGED <<reg, hw, priv, dev, fin, fout>>

\* sunxi_can_rx: skb = alloc_can_skb(dev, &cf); if (skb == NULL) return;
\* else the reads of the buffer registers, then the release of the buffer
rx_alloc ==
    /\ At("irq", "rx_alloc")
    /\ \/ /\ CallSub("irq", "cmd_lock", "rx_deliver",
                     [cf |-> DecodeFrame(ReadRxBuf), val |-> RELEASE_RBUF])
          /\ obs' = [obs EXCEPT !.rx_taken = @ + 1, !.rx_nomem = FALSE]
       \/ /\ Goto("irq", "rx_sta")
          /\ obs' = [obs EXCEPT !.rx_nomem = TRUE]
          /\ UNCHANGED loc
    /\ UNCHANGED <<reg, hw, priv, dev, fin, fout>>

\* netif_rx(skb); stats->rx_packets++; stats->rx_bytes += cf->can_dlc
rx_deliver ==
    /\ At("irq", "rx_deliver")
    /\ dev' = [dev EXCEPT
                 !.stats = AddStats(@, [rx_packets |-> 1,
                                        rx_bytes |-> loc["irq"].cf.can_dlc])]
    /\ Goto("irq", "rx_sta")
    /\ Set("irq", [cf |-> NoFrame])
    /\ UNCHANGED <<reg, hw, priv, obs, fin, fout>>

\* status = readl(CAN_STA_ADDR); if (sunxi_can_is_absent(priv)) return
\* IRQ_NONE; then the test of the receive loop
rx_sta ==
    /\ At("irq", "rx_sta")
    /\ IF sunxi_can_is_absent
       THEN IrqReturn("absent")
       ELSE /\ Goto("irq", AfterTx(loc["irq"].isrc, U8(ReadSta)))
            /\ Set("irq", [status |-> U8(ReadSta)])
            /\ UNCHANGED obs
    /\ UNCHANGED <<reg, hw, priv, dev, fin, fout>>

sunxi_can_rx == rx_alloc \/ rx_deliver

\* sunxi_can_err: enum can_state state = priv->can.state;
\* skb = alloc_can_err_skb(dev, &cf); if (skb == NULL) return -ENOMEM, on
\* which the dispatcher leaves its loop without the acknowledge;
\* if (isrc & DATA_ORUNI) ... sunxi_can_write_cmdreg(priv, CLEAR_DOVERRUN)
err_entry ==
    /\ At("irq", "err_entry")
    /\ \/ /\ IF And(loc["irq"].isrc, DATA_ORUNI) # {}
             THEN CallSub("irq", "cmd_lock", "err_bits",
                          [state |-> priv.state, val |-> CLEAR_DOVERRUN])
             ELSE Goto("irq", "err_bits") /\ Set("irq", [state |-> priv.state])
          /\ obs' = [obs EXCEPT !.err =
                       [done |-> FALSE, entry |-> priv.state, stats |-> dev.stats,
                        bus_off |-> dev.bus_off_calls]]
       \/ IrqReturn("nomem")
    /\ UNCHANGED <<reg, hw, priv, dev, fin, fout>>

\* an Error State Machine that stores the mode as soon as the error-warning
\* bit has been evaluated
err_bits_early ==
    /\ At("irq", "err_bits")
    /\ LET l == loc["irq"]
           errc == IF hw.absent THEN Bits32 ELSE reg.errc
           r == sunxi_can_err(l.isrc, l.status, l.state, priv.state, ReadSta, ReadSta, errc)
       IN  /\ Set("irq", [r |-> r])
           /\ priv' = [priv EXCEPT !.state =
                         ErrNextState(l.isrc \ ERR_PASSIVE, l.status, l.state)]
           /\ dev' = [dev EXCEPT
                        !.stats = AddStats(@, [f \in DOMAIN Stats0 \cap DOMAIN r |-> r[f]]),
                        !.carrier_ok = IF r.bus_off = 1 THEN FALSE ELSE @,
                        !.bus_off_calls = @ + r.bus_off]
           /\ obs' = [obs EXCEPT !.err =
                        @ @@ [isrc |-> l.isrc, status |-> l.status, cur |-> priv.state,
                              ecc |-> ReadSta, alc |-> ReadSta, errc |-> errc]]
    /\ Goto("irq", "err_commit")
    /\ UNCHANGED <<reg, hw, fin, fout>>

\* the error-warning, bus-error, error-passive and arbitration-lost bits:
\* can_bus_off(dev), the reads of the status register for the error code and
\* the arbitration-lost capture; then if (state != priv->can.state && ...):
\* the reads of priv->can.state and of the error counters; the frame and the
\* counters of this call
err_bits ==
    /\ At("irq", "err_bits")
    /\ LET l == loc["irq"]
           errc == IF hw.absent THEN Bits32 ELSE reg.errc
           r == sunxi_can_err(l.isrc, l.status, l.state, priv.state, ReadSta, ReadSta, errc)
       IN  /\ Set("irq", [r |-> r])
           /\ dev' = [dev EXCEPT
                        !.stats = AddStats(@, [f \in DOMAIN Stats0 \cap DOMAIN r |-> r[f]]),
                        !.carrier_ok = IF r.bus_off = 1 THEN FALSE ELSE @,
                        !.bus_off_calls = @ + r.bus_off]
           /\ obs' = [obs EXCEPT !.err =
                        @ @@ [isrc |-> l.isrc, status |-> l.status, cur |-> priv.state,
                              ecc |-> ReadSta, alc |-> ReadSta, errc |-> errc]]
    /\ Goto("irq", "err_commit")
    /\ UNCHANGED <<reg, hw, priv, fin, fout>>

\* priv->can.state = state; netif_rx(skb); stats->rx_packets++;
\* stats->rx_bytes += cf->can_dlc; return 0
err_commit ==
    /\ At("irq", "err_commit")
    /\ LET r == loc["irq"].r
       IN  /\ priv' = [priv EXCEPT !.state = r.state]
           /\ dev' = [dev EXCEPT
                        !.stats = AddStats(@, [rx_packets |-> 1,
                                               rx_bytes |-> r.cf.can_dlc])]
           /\ obs' = [obs EXCEPT !.err =
                        [@ EXCEPT !.done = TRUE] @@
                        [cf |-> r.cf, state |-> r.state,
                         notified |-> dev.bus_off_calls - obs.err.bus_off,
                         d |-> [f \in DOMAIN Stats0 |->
                                  dev'.stats[f] - obs.err.stats[f]]]]
    /\ Goto("irq", "irq_ack")
    /\ Set("irq", [r |-> Err0, state |-> ""])
    /\ UNCHANGED <<reg, hw, fin, fout>>

sunxi_can_err_steps == err_entry \/ err_bits \/ err_commit

\* writel(isrc, CAN_INT_ADDR); readl(CAN_INT_ADDR): a working controller
\* clears the bits written, one whose interrupt source is stuck keeps them
irq_ack ==
    /\ At("irq", "irq_ack")
    /\ reg' = IF hw.absent \/ hw.int_stuck THEN reg
              ELSE [reg EXCEPT !.int = @ \ loc["irq"].isrc]
    /\ obs' = [obs EXCEPT !.acks = @ + 1, !.err = Err0]
    /\ Goto("irq", "irq_loop")
    /\ UNCHANGED <<hw, priv, dev, loc, fin, fout>>

sunxi_can_interrupt ==
    \/ irq_enter \/ irq_loop \/ irq_sta \/ irq_tx
    \/ sunxi_can_rx \/ rx_sta
    \/ sunxi_can_err_steps \/ irq_ack
    \/ sunxi_can_write_cmdreg("irq")

(***************************************************************************)
(* sunxi_can_start_xmit (the transmit context)                             *)
(***************************************************************************)
\* frames the network stack hands down: a standard data frame, and a frame
\* can_dropped_invalid_skb() rejects (dlc > 8)
TxFrames ==
    { [can_id |-> W(291), can_dlc |-> 2,
       data |-> [i \in 1..8 |-> IF i <= 2 THEN W(17 * i) ELSE {}]],
      [can_id |-> W(5), can_dlc |-> 9, data |-> ZeroData] }

\* can_dropped_invalid_skb(): the length code must not exceed 8
InvalidSkb(cf) == cf.can_dlc > 8

\* the network stack calls ndo_start_xmit on an open device whose queue is awake
xmit_enter ==
    /\ At("tx", "idle")
    /\ priv.open_time
    /\ ~dev.queue_stopped
    /\ obs.xmits < MaxXmit
    /\ \E cf \in TxFrames : Set("tx", [cf |-> cf])
    /\ Goto("tx", "tx_wait1")
    /\ obs' = [obs EXCEPT !.xmits = @ + 1]
    /\ UNCHANGED <<reg, hw, priv, dev, fin, fout>>

\* a transmit path that does not enter reset mode before the filter write
tx_wait1_noreset ==
    /\ At("tx", "tx_wait1")
    /\ And(ReadSta, TBUF_RDY) # {}
    /\ Goto("tx", "tx_acpm")
    /\ UNCHANGED <<reg, hw, priv, dev, loc, obs, fin, fout>>

\* while (!(readl(CAN_STA_ADDR) & TBUF_RDY)); set_reset_mode(dev)
tx_wait1 ==
    /\ At("tx", "tx_wait1")
    /\ And(ReadSta, TBUF_RDY) # {}
    /\ CallSub("tx", "rst_entry", "tx_acpm", <<>>)
    /\ UNCHANGED <<reg, hw, priv, dev, obs, fin, fout>>

\* writel(0xffffffff, CAN_ACPM_ADDR); set_normal_mode(dev)
tx_acpm ==
    /\ At("tx", "tx_acpm")
    /\ reg' = IF hw.absent THEN reg ELSE [reg EXCEPT !.acpm = Bits32]
    /\ CallSub("tx", "nrm_entry", "tx_drop", <<>>)
    /\ UNCHANGED <<hw, priv, dev, obs, fin, fout>>

\* if (can_dropped_invalid_skb(dev, skb)) return NETDEV_TX_OK;
\* netif_stop_queue(dev)
tx_drop ==
    /\ At("tx", "tx_drop")
    /\ IF InvalidSkb(loc["tx"].cf)
       THEN /\ Goto("tx", "idle")
            /\ loc' = [loc EXCEPT !["tx"] = Loc0]
            /\ UNCHANGED dev
       ELSE /\ Goto("tx", "tx_enc")
            /\ dev' = [dev EXCEPT !.queue_stopped = TRUE]
            /\ UNCHANGED loc
    /\ UNCHANGED <<reg, hw, priv, obs, fin, fout>>

\* the writes of the buffer registers; can_put_echo_skb(skb, dev, 0)
tx_enc ==
    /\ At("tx", "tx_enc")
    /\ reg' = IF hw.absent THEN reg
              ELSE [reg EXCEPT !.txbuf = EncodeFrame(loc["tx"].cf, @)]
    /\ dev' = [dev EXCEPT !.echo = loc["tx"].cf]
    /\ Goto("tx", "tx_wait2")
    /\ UNCHANGED <<hw, priv, loc, obs, fin, fout>>

\* while (!(readl(CAN_STA_ADDR) & TBUF_RDY)); sunxi_can_write_cmdreg(priv, TRANS_REQ);
\* return NETDEV_TX_OK
tx_wait2 ==
    /\ At("tx", "tx_wait2")
    /\ And(ReadSta, TBUF_RDY) # {}
    /\ CallSub("tx", "cmd_lock", "idle", [val |-> TRANS_REQ])
    /\ UNCHANGED <<reg, hw, priv, dev, obs, fin, fout>>

sunxi_can_start_xmit ==
    \/ xmit_enter \/ tx_wait1 \/ tx_acpm \/ tx_drop \/ tx_enc \/ tx_wait2
    \/ set_reset_mode("tx") \/ set_normal_mode("tx") \/ sunxi_can_write_cmdreg("tx")

(***************************************************************************)
(* The configuration context: sunxi_can_open, sunxi_can_set_mode,          *)
(* sunxi_can_set_bittiming, and sunxi_can_start which the first two call   *)
(***************************************************************************)
\* if (priv->can.state != CAN_STATE_STOPPED) set_reset_mode(dev)
start_entry ==
    /\ At("cfg", "start_entry")
    /\ IF priv.state # CAN_STATE_STOPPED
       THEN CallSub("cfg", "rst_entry", "start_errc", <<>>)
       ELSE Goto("cfg", "start_errc") /\ UNCHANGED loc
    /\ UNCHANGED <<reg, hw, priv, dev, obs, fin, fout>>

\* writel(0x0, CAN_ERRC_ADDR); set_normal_mode(dev), after which
\* sunxi_can_start returns
start_errc ==
    /\ At("cfg", "start_errc")
    /\ reg' = IF hw.absent THEN reg ELSE [reg EXCEPT !.errc = {}]
    /\ Goto("cfg", "nrm_entry")
    /\ UNCHANGED <<hw, priv, dev, loc, obs, fin, fout>>

sunxi_can_start == start_entry \/ start_errc

\* sunxi_can_set_mode(dev, CAN_MODE_START): if (!priv->open_time) return -EINVAL
mode_enter ==
    /\ At("cfg", "idle")
    /\ priv.open_time
    /\ obs.cfg_calls < MaxCfgCalls
    /\ CallSub("cfg", "start_entry", "mode_wake", <<>>)
    /\ obs' = [obs EXCEPT !.cfg_calls = @ + 1]
    /\ UNCHANGED <<reg, hw, priv, dev, fin, fout>>

\* if (netif_queue_stopped(dev)) netif_wake_queue(dev); return 0
mode_wake ==
    /\ At("cfg", "mode_wake")
    /\ dev' = [dev EXCEPT !.queue_stopped = FALSE]
    /\ Goto("cfg", "idle")
    /\ UNCHANGED <<reg, hw, priv, loc, obs, fin, fout>>

sunxi_can_set_mode == mode_enter \/ mode_wake

\* sunxi_can_set_bittiming: cfg = ...; set_reset_mode(dev)
bt_enter ==
    /\ At("cfg", "idle")
    /\ obs.cfg_calls < MaxCfgCalls
    /\ CallSub("cfg", "rst_entry", "bt_write",
               [cfg |-> BittimingCfg(priv.bittiming, priv.ctrlmode)])
    /\ obs' = [obs EXCEPT !.cfg_calls = @ + 1]
    /\ UNCHANGED <<reg, hw, priv, dev, fin, fout>>

\* writel(cfg, CAN_BTIME_ADDR); set_normal_mode(dev); return 0
bt_write ==
    /\ At("cfg", "bt_write")
    /\ reg' = IF hw.absent THEN reg ELSE [reg EXCEPT !.btime = loc["cfg"].cfg]
    /\ obs' = [obs EXCEPT !.btime_writes = @ + 1,
                          !.btime_in_reset = And(ReadMsel, RESET_MODE) # {}]
    /\ CallSub("cfg", "nrm_entry", "idle", [cfg |-> {}])
    /\ UNCHANGED <<hw, priv, dev, fin, fout>>

sunxi_can_set_bittiming == bt_enter \/ bt_write

\* sunxi_can_open: set_reset_mode(dev)
open_enter ==
    /\ At("cfg", "idle")
    /\ ~priv.open_time
    /\ ~priv.irq_registered
    /\ CallSub("cfg", "rst_entry", "open_acpm", <<>>)
    /\ UNCHANGED <<reg, hw, priv, dev, obs, fin, fout>>

\* writel(0xffffffff, CAN_ACPM_ADDR); open_candev(dev); request_irq(...);
\* sunxi_can_start(dev)
open_acpm ==
    /\ At("cfg", "open_acpm")
    /\ reg' = IF hw.absent THEN reg ELSE [reg EXCEPT !.acpm = Bits32]
    /\ priv' = [priv EXCEPT !.irq_registered = TRUE]
    /\ dev' = [dev EXCEPT !.carrier_ok = TRUE]
    /\ CallSub("cfg", "start_entry", "open_done", <<>>)
    /\ UNCHANGED <<hw, obs, fin, fout>>

\* priv->open_time = jiffies; netif_start_queue(dev); return 0
open_done ==
    /\ At("cfg", "open_done")
    /\ priv' = [priv EXCEPT !.open_time = TRUE]
    /\ dev' = [dev EXCEPT !.queue_stopped = FALSE]
    /\ Goto("cfg", "idle")
    /\ UNCHANGED <<reg, hw, loc, obs, fin, fout>>

sunxi_can_open == open_enter \/ open_acpm \/ open_done

\* sunxi_can_close: netif_stop_queue(dev); set_reset_mode(dev)
close_enter ==
    /\ At("cfg", "idle")
    /\ priv.open_time
    /\ obs.cfg_calls < MaxCfgCalls
    /\ dev' = [dev EXCEPT !.queue_stopped = TRUE]
    /\ CallSub("cfg", "rst_entry", "close_done", <<>>)
    /\ obs' = [obs EXCEPT !.cfg_calls = @ + 1]
    /\ UNCHANGED <<reg, hw, priv, fin, fout>>

\* free_irq(dev->irq, dev), which waits for a running handler to return;
\* close_candev(dev); priv->open_time = 0; return 0
close_done ==
    /\ At("cfg", "close_done")
    /\ At("irq", "idle")
    /\ priv' = [priv EXCEPT !.open_time = FALSE, !.irq_registered = FALSE]
    /\ Goto("cfg", "idle")
    /\ UNCHANGED <<reg, hw, dev, loc, obs, fin, fout>>

sunxi_can_close == close_enter \/ close_done

(***************************************************************************)
(* What the controller does on its own                                     *)
(***************************************************************************)
\* the transmission requested completes: buffer released, TX interrupt raised
HwTxDone ==
    /\ hw.tx_busy
    /\ ~hw.absent
    /\ hw' = [hw EXCEPT !.tx_busy = FALSE]
    /\ reg' = [reg EXCEPT !.int = Or(@, TBUF_VLD)]
    /\ UNCHANGED <<priv, dev, pc, loc, obs, fin, fout>>

\* contents of the buffer registers for a received frame: a standard data
\* frame (id 0x123, two bytes)
RxBufs ==
    { [r \in 1..NBUF |-> CASE r = 1 -> W(2) [] r = 2 -> W(36) [] r = 3 -> W(96)
                           [] r = 4 -> W(222) [] r = 5 -> W(173) [] OTHER -> {}] }

\* a frame arrives while the controller is out of reset mode
HwRxFrame ==
    /\ ~hw.absent
    /\ hw.events < MaxHwEvents
    /\ Len(hw.rxq) < MaxRxFifo
    /\ And(reg.msel, RESET_MODE) = {}
    /\ \E b \in RxBufs : hw' = [hw EXCEPT !.rxq = Append(@, b), !.events = @ + 1]
    /\ reg' = [reg EXCEPT !.int = Or(@, RBUF_VLD)]
    /\ UNCHANGED <<priv, dev, pc, loc, obs, fin, fout>>

\* the error counter register with the given transmit and receive counts
Errc(tx, rx) == Or(W(tx), Shl(W(rx), 16))

\* error conditions the controller reports: the interrupt bits it raises,
\* the error part of the status register, the error counters
ErrEvents ==
    { [isrc |-> Or(ERR_WRN, BUS_ERR), sta |-> Or(ERR_STA, Or(BIT_ERR, FORM_ERR)),
       errc |-> Errc(100, 5)],
      [isrc |-> Or(DATA_ORUNI, ERR_WRN), sta |-> Or(BUS_OFF, ERR_STA),
       errc |-> Errc(0, 0)] }

HwError ==
    /\ ~hw.absent
    /\ hw.events < MaxHwEvents
    /\ \E e \in ErrEvents :
          reg' = [reg EXCEPT !.int = Or(@, e.isrc), !.sta = e.sta, !.errc = e.errc]
    /\ hw' = [hw EXCEPT !.events = @ + 1]
    /\ UNCHANGED <<priv, dev, pc, loc, obs, fin, fout>>

\* the controller is unplugged: every register reads as all ones from now on
HwUnplug ==
    /\ ~hw.absent
    /\ hw' = [hw EXCEPT !.absent = TRUE]
    /\ UNCHANGED <<reg, priv, dev, pc, loc, obs, fin, fout>>

(***************************************************************************)
(* Initial states                                                          *)
(***************************************************************************)
\* control modes the configuration collaborator may have set
CtrlModes == { {}, Or(CAN_CTRLMODE_LOOPBACK, CAN_CTRLMODE_BERR_REPORTING) }

\* the control mode of the device in the full model: loopback with bus-error
\* reporting
CtrlMode0 == Or(CAN_CTRLMODE_LOOPBACK, CAN_CTRLMODE_BERR_REPORTING)

Bittiming0 == [brp |-> 8, sjw |-> 2, prop_seg |-> 5, phase_seg1 |-> 5, phase_seg2 |-> 4]

\* the registers after sunxi_can_init: chipset_init has gone through normal
\* mode (interrupt enables written there), register_sunxicandev has put the
\* controller back into reset mode
Reg0 ==
    [msel |-> RESET_MODE, sta |-> {}, int |-> {}, inten |-> IntenFor({}),
     btime |-> {}, errc |-> {}, acpm |-> {}, cmd |-> {}, txbuf |-> ZeroBuf]

Hw0 ==
    [absent |-> FALSE, mode_stuck |-> FALSE, int_stuck |-> FALSE,
     tx_busy |-> FALSE, rxq |-> <<>>, events |-> 0]

Priv0 ==
    [state |-> CAN_STATE_STOPPED, ctrlmode |-> {}, bittiming |-> Bittiming0,
     open_time |-> FALSE, irq_registered |-> FALSE, cmdreg_lock |-> "free"]

Dev0 ==
    [queue_stopped |-> FALSE, stats |-> Stats0, echo |-> NoFrame, carrier_ok |-> FALSE,
     bus_off_calls |-> 0]

\* every context idle, nothing observed yet
InitDriver ==
    /\ pc = [c \in Ctx |-> "idle"]
    /\ loc = [c \in Ctx |-> Loc0]
    /\ obs = Obs0

NoHarness == fin = [kind |-> "none"] /\ fout = [step |-> "none"]

\* the registered, closed device on a working controller
Init ==
    /\ reg = Reg0
    /\ hw = Hw0
    /\ priv = [Priv0 EXCEPT !.ctrlmode = CtrlMode0]
    /\ dev = Dev0
    /\ InitDriver
    /\ NoHarness

\* the hardware's own steps
Hardware == HwTxDone \/ HwRxFrame \/ HwError

(***************************************************************************)
(* Spec: the transmit, interrupt and configuration contexts running        *)
(* concurrently on a working controller.                                   *)
(***************************************************************************)
Next ==
    \/ sunxi_can_start_xmit
    \/ sunxi_can_interrupt
    \/ sunxi_can_open \/ sunxi_can_start \/ sunxi_can_set_mode \/ sunxi_can_set_bittiming
    \/ sunxi_can_close
    \/ set_reset_mode("cfg") \/ set_normal_mode("cfg")
    \/ Hardware

Spec == Init /\ [][Next]_vars

(***************************************************************************)
(* SpecMode: the configuration context alone, on a controller whose mode   *)
(* latch may stop following the writes of the reset bit at any moment.     *)
(***************************************************************************)
\* the mode latch stops following writes
HwStick ==
    /\ ~hw.mode_stuck
    /\ hw' = [hw EXCEPT !.mode_stuck = TRUE]
    /\ UNCHANGED <<reg, priv, dev, pc, loc, obs, fin, fout>>

InitMode ==
    /\ reg = Reg0
    /\ hw = Hw0
    /\ \E m \in CtrlModes : priv = [Priv0 EXCEPT !.ctrlmode = m]
    /\ dev = Dev0
    /\ InitDriver
    /\ NoHarness

NextMode ==
    \/ sunxi_can_open \/ sunxi_can_start \/ sunxi_can_set_mode \/ sunxi_can_set_bittiming
    \/ sunxi_can_close
    \/ set_reset_mode("cfg") \/ set_normal_mode("cfg") \/ mode_timeout("cfg")
    \/ HwStick

SpecMode == InitMode /\ [][NextMode]_vars

(***************************************************************************)
(* SpecIrq: one open, running device; the dispatcher alone against a       *)
(* controller that raises errors and frames, may be unplugged, and whose   *)
(* interrupt-source register may never clear.                              *)
(***************************************************************************)
\* interrupt-source values of a source that never clears
StuckIsrc ==
    { TBUF_VLD, RBUF_VLD, WAKEUP, ERR_WRN, Or(BUS_ERR, DATA_ORUNI),
      Or(Or(TBUF_VLD, RBUF_VLD), ERR_PASSIVE) }

\* what the error part of the status register shows at the start
StaSamples == { {}, ERR_STA, Or(ERR_STA, BUS_OFF) }

InitIrq ==
    /\ \E stuck \in BOOLEAN, s \in StaSamples :
          /\ hw = [Hw0 EXCEPT !.int_stuck = stuck]
          /\ \E i \in (IF stuck THEN StuckIsrc ELSE {{}}) :
                reg = [Reg0 EXCEPT !.msel = ModeBitFor(CtrlMode0),
                                   !.inten = IntenFor(CtrlMode0),
                                   !.int = i, !.sta = s]
    /\ priv = [Priv0 EXCEPT !.ctrlmode = CtrlMode0, !.state = CAN_STATE_ERROR_ACTIVE,
                            !.open_time = TRUE, !.irq_registered = TRUE]
    /\ dev = [Dev0 EXCEPT !.carrier_ok = TRUE]
    /\ InitDriver
    /\ NoHarness

NextIrq == sunxi_can_interrupt \/ HwRxFrame \/ HwError \/ HwUnplug

SpecIrq == InitIrq /\ [][NextIrq]_vars

\* the same, with the processor never abandoning the handler it is running
SpecIrqFair == SpecIrq /\ WF_vars(sunxi_can_interrupt)

(***************************************************************************)
(* Harnesses for the pure functions: the input is drawn in the initial     *)
(* state, the actions apply the function.  The driver's variables stay at  *)
(* their initial values.                                                   *)
(***************************************************************************)
DriverAtRest ==
    /\ reg = Reg0
    /\ hw = Hw0
    /\ priv = Priv0
    /\ dev = Dev0
    /\ InitDriver

DriverUnchanged == UNCHANGED <<reg, hw, priv, dev, pc, loc, obs>>

\* --- bit timing: the ranges of sunxi_can_bittiming_const
tseg1_max == 16
tseg2_max == 8
sjw_max == 4
brp_max == 64

\* prop_seg and phase_seg1 with every sum in 1..tseg1_max
Tseg1Pairs == {0, tseg1_max \div 2} \X (1..(tseg1_max \div 2))

InitBitTiming ==
    /\ DriverAtRest
    /\ \E brp \in 1..brp_max, sjw \in 1..sjw_max, t1 \in Tseg1Pairs,
          seg2 \in 1..tseg2_max, m \in { {}, CAN_CTRLMODE_3_SAMPLES } :
          fin = [kind |-> "bittiming",
                 bt |-> [brp |-> brp, sjw |-> sjw, prop_seg |-> t1[1],
                         phase_seg1 |-> t1[2], phase_seg2 |-> seg2],
                 ctrlmode |-> m]
    /\ fout = [step |-> "none"]

\* cfg = ... in sunxi_can_set_bittiming
BittimingApply ==
    /\ fin.kind = "bittiming"
    /\ fout.step = "none"
    /\ fout' = [step |-> "cfg", cfg |-> BittimingCfg(fin.bt, fin.ctrlmode)]
    /\ UNCHANGED fin
    /\ DriverUnchanged

SpecBitTiming == InitBitTiming /\ [][BittimingApply]_vars

\* --- frame codec
\* identifiers of width w: none, each single bit, all but one bit, all bits
IdSamples(w) ==
    {{}} \cup {{k} : k \in 0..(w - 1)} \cup {(0..(w - 1)) \ {k} : k \in 0..(w - 1)}
         \cup {0..(w - 1)}

\* standard (11-bit) and extended (29-bit) identifiers, with and without RTR
CodecIds ==
    LET base == IdSamples(11) \cup {Or(i, CAN_EFF_FLAG) : i \in IdSamples(29)}
    IN  base \cup {Or(i, CAN_RTR_FLAG) : i \in base}

CodecData ==
    { [i \in 1..8 |-> W(17 * i)], [i \in 1..8 |-> W(256 - i)], ZeroData }

\* what the buffer registers hold before the frame is written
StaleBufs == { ZeroBuf, [r \in 1..NBUF |-> W(165)] }

InitCodec ==
    /\ DriverAtRest
    /\ \E id \in CodecIds, dlc \in 0..8, d \in CodecData, b \in StaleBufs :
          fin = [kind |-> "codec", cf |-> [can_id |-> id, can_dlc |-> dlc, data |-> d],
                 buf |-> b]
    /\ fout = [step |-> "none"]

\* the buffer register writes of sunxi_can_start_xmit
CodecEncode ==
    /\ fin.kind = "codec"
    /\ fout.step = "none"
    /\ fout' = [step |-> "encoded", buf |-> EncodeFrame(fin.cf, fin.buf)]
    /\ UNCHANGED fin
    /\ DriverUnchanged

\* the buffer register reads of sunxi_can_rx, of the values just written
CodecDecode ==
    /\ fin.kind = "codec"
    /\ fout.step = "encoded"
    /\ fout' = [step |-> "decoded", buf |-> fout.buf, cf |-> DecodeFrame(fout.buf)]
    /\ UNCHANGED fin
    /\ DriverUnchanged

SpecCodec == InitCodec /\ [][CodecEncode \/ CodecDecode]_vars

\* --- Error State Machine
\* every combination of the five error bits of the interrupt source
ErrIsrcs ==
    {Or(Or(Or(Or(a, b), c), d), e) :
        a \in {{}, DATA_ORUNI}, b \in {{}, ERR_WRN}, c \in {{}, BUS_ERR},
        d \in {{}, ERR_PASSIVE}, e \in {{}, ARB_LOST}} \ {{}}

ErrStatuses == { {}, ERR_STA, BUS_OFF, Or(ERR_STA, BUS_OFF) }

ErrStates ==
    { CAN_STATE_ERROR_ACTIVE, CAN_STATE_ERROR_WARNING, CAN_STATE_ERROR_PASSIVE,
      CAN_STATE_BUS_OFF, CAN_STATE_STOPPED }

\* the status register as read for the error code: every combination of the
\* error-type and direction bits, with two segment codes
ErrCodes ==
    {Or(Or(Or(Or(a, b), c), d), e) :
        a \in {{}, BIT_ERR}, b \in {{}, FORM_ERR}, c \in {{}, STUFF_ERR},
        d \in {{}, ERR_DIR}, e \in {{}, {16, 18}}}

ErrCounts == { Errc(10, 5), Errc(5, 10), Errc(7, 7), Errc(0, 0), Errc(255, 128) }

InitErr ==
    /\ DriverAtRest
    /\ \E isrc \in ErrIsrcs, status \in ErrStatuses, state \in ErrStates,
          ecc \in ErrCodes, errc \in ErrCounts :
          fin = [kind |-> "err", isrc |-> isrc, status |-> status, state |-> state,
                 ecc |-> ecc, errc |-> errc]
    /\ fout = [step |-> "none"]

\* one call of sunxi_can_err that no other context interferes with: the mode
\* read for the final comparison is the mode read at entry
ErrApply ==
    /\ fin.kind = "err"
    /\ fout.step = "none"
    /\ fout' = [step |-> "err",
                r |-> sunxi_can_err(fin.isrc, fin.status, fin.state, fin.state,
                                    fin.ecc, fin.ecc, fin.errc)]
    /\ UNCHANGED fin
    /\ DriverUnchanged

SpecErr == InitErr /\ [][ErrApply]_vars

(***************************************************************************)
(* SpecTxIrq: one open, running device on a working controller; the        *)
(* transmit context and the dispatcher running concurrently.               *)
(***************************************************************************)
\* the device after sunxi_can_open
InitRunning ==
    /\ reg = [Reg0 EXCEPT !.msel = ModeBitFor(CtrlMode0), !.inten = IntenFor(CtrlMode0)]
    /\ hw = Hw0
    /\ priv = [Priv0 EXCEPT !.ctrlmode = CtrlMode0, !.state = CAN_STATE_ERROR_ACTIVE,
                            !.open_time = TRUE, !.irq_registered = TRUE]
    /\ dev = [Dev0 EXCEPT !.carrier_ok = TRUE]
    /\ InitDriver
    /\ NoHarness

NextTxIrq == sunxi_can_start_xmit \/ sunxi_can_interrupt \/ Hardware

SpecTxIrq == InitRunning /\ [][NextTxIrq]_vars

(***************************************************************************)
(* SpecTxAcct: the running device of SpecTxIrq with the interrupt line     *)
(* raised again after a dispatcher invocation has returned.                *)
(***************************************************************************)
InitTxAcct ==
    /\ reg = [Reg0 EXCEPT !.msel = ModeBitFor(CtrlMode0), !.inten = IntenFor(CtrlMode0)]
    /\ hw = Hw0
    /\ priv = [Priv0 EXCEPT !.ctrlmode = CtrlMode0, !.state = CAN_STATE_ERROR_ACTIVE,
                            !.open_time = TRUE, !.irq_registered = TRUE]
    /\ dev = [Dev0 EXCEPT !.carrier_ok = TRUE]
    /\ InitDriver
    /\ fin = [kind |-> "irqs", calls |-> MaxIrqRuns]
    /\ fout = [step |-> "none"]

SpecTxAcct == InitTxAcct /\ [][NextTxIrq]_vars

(***************************************************************************)
(* SpecRx: the dispatcher alone, called with a frame in the receive        *)
(* buffer.                                                                 *)
(***************************************************************************)
\* frames on the bus: standard and extended, data and remote, three lengths
RxFrames ==
    { [can_id |-> Or(id, f), can_dlc |-> dlc, data |-> [i \in 1..8 |-> W(16 + i)]] :
        id \in {W(291)}, f \in {{}, CAN_RTR_FLAG, CAN_EFF_FLAG, Or(CAN_EFF_FLAG, CAN_RTR_FLAG)},
        dlc \in {0, 3, 8} }

\* what the buffer registers show for them, and a header whose length code
\* is above 8
RxBufsAll ==
    { EncodeFrame(cf, ZeroBuf) : cf \in RxFrames }
      \cup { [r \in 1..NBUF |-> IF r = 1 THEN W(15) ELSE W(r)] }

InitRx ==
    /\ \E b \in RxBufsAll, e \in { {}, DATA_ORUNI } :
          /\ hw = [Hw0 EXCEPT !.rxq = <<b>>]
          /\ reg = [Reg0 EXCEPT !.msel = ModeBitFor(CtrlMode0),
                                !.inten = IntenFor(CtrlMode0),
                                !.int = Or(RBUF_VLD, e)]
    /\ priv = [Priv0 EXCEPT !.ctrlmode = CtrlMode0, !.state = CAN_STATE_ERROR_ACTIVE,
                            !.open_time = TRUE, !.irq_registered = TRUE]
    /\ dev = [Dev0 EXCEPT !.carrier_ok = TRUE]
    /\ InitDriver
    /\ NoHarness

SpecRx == InitRx /\ [][NextIrq]_vars

(***************************************************************************)
(* SpecCfg: the configuration context alone on a working controller, with  *)
(* the configuration collaborator changing the control mode of the closed  *)
(* device.                                                                 *)
(***************************************************************************)
\* control modes within priv->can.ctrlmode_supported
CtrlModeChoices ==
    { {}, CAN_CTRLMODE_LOOPBACK, CAN_CTRLMODE_LISTENONLY,
      Or(CAN_CTRLMODE_LOOPBACK, CAN_CTRLMODE_LISTENONLY),
      CAN_CTRLMODE_BERR_REPORTING }

\* the CAN core stores a new control mode; it does so only while the device
\* is closed
SetCtrlMode ==
    /\ At("cfg", "idle")
    /\ ~priv.open_time
    /\ \E m \in CtrlModeChoices \ {priv.ctrlmode} : priv' = [priv EXCEPT !.ctrlmode = m]
    /\ UNCHANGED <<reg, hw, dev, pc, loc, obs, fin, fout>>

NextCfg ==
    \/ sunxi_can_open \/ sunxi_can_start \/ sunxi_can_set_mode \/ sunxi_can_set_bittiming
    \/ sunxi_can_close
    \/ set_reset_mode("cfg") \/ set_normal_mode("cfg")
    \/ SetCtrlMode

SpecCfg == InitMode /\ [][NextCfg]_vars

(***************************************************************************)
(* SpecTx: the transmit context alone on a running controller, whatever    *)
(* error state the driver has recorded.                                    *)
(***************************************************************************)
\* the error part of the status register that goes with a recorded mode
StaFor(state) ==
    CASE state = CAN_STATE_BUS_OFF -> Or(ERR_STA, BUS_OFF)
      [] state \in {CAN_STATE_ERROR_WARNING, CAN_STATE_ERROR_PASSIVE} -> ERR_STA
      [] OTHER -> {}

InitTx ==
    /\ \E s \in ErrStates \ {CAN_STATE_STOPPED}, m \in CtrlModes :
          /\ reg = [Reg0 EXCEPT !.msel = ModeBitFor(m), !.inten = IntenFor(m),
                                !.sta = StaFor(s)]
          /\ priv = [Priv0 EXCEPT !.ctrlmode = m, !.state = s,
                                  !.open_time = TRUE, !.irq_registered = TRUE]
          /\ fin = [kind |-> "tx", state |-> s]
    /\ hw = Hw0
    /\ dev = [Dev0 EXCEPT !.carrier_ok = TRUE]
    /\ InitDriver
    /\ fout = [step |-> "none"]

NextTx == sunxi_can_start_xmit \/ HwTxDone

SpecTx == InitTx /\ [][NextTx]_vars

(***************************************************************************)
(* SpecArb: one call of sunxi_can_err on an arbitration-lost interrupt,    *)
(* for every captured bit position.                                        *)
(***************************************************************************)
\* bit positions the controller can capture
ArbPositions == 0..31

\* the status register as read at alc = readl(CAN_STA_ADDR), with the
\* captured position in the field the shift by 8 addresses
ArbCapture(pos) == Shl(W(pos), 8)

InitArb ==
    /\ DriverAtRest
    /\ \E pos \in ArbPositions, isrc \in {i \in ErrIsrcs : And(i, ARB_LOST) # {}} :
          fin = [kind |-> "arb", pos |-> pos, isrc |-> isrc,
                 alc |-> ArbCapture(pos)]
    /\ fout = [step |-> "none"]

ArbApply ==
    /\ fin.kind = "arb"
    /\ fout.step = "none"
    /\ fout' = [step |-> "arb",
                r |-> sunxi_can_err(fin.isrc, {}, CAN_STATE_ERROR_ACTIVE,
                                    CAN_STATE_ERROR_ACTIVE, {}, fin.alc, {})]
    /\ UNCHANGED fin
    /\ DriverUnchanged

SpecArb == InitArb /\ [][ArbApply]_vars

(***************************************************************************)
(* SpecBerr: one call of sunxi_can_get_berr_counter, for a sample of the   *)
(* values of the error counter register.                                   *)
(***************************************************************************)
\* counts of one error counter: every value of the low four bits, and
\* values above them up to the largest
BerrCounts == (0..15) \cup {16, 17, 96, 127, 128, 255}

InitBerr ==
    /\ DriverAtRest
    /\ \E tx \in BerrCounts, rx \in BerrCounts :
          fin = [kind |-> "berr", errc |-> Errc(tx, rx)]
    /\ fout = [step |-> "none"]

BerrApply ==
    /\ fin.kind = "berr"
    /\ fout.step = "none"
    /\ fout' = [step |-> "berr", bec |-> sunxi_can_get_berr_counter(fin.errc)]
    /\ UNCHANGED fin
    /\ DriverUnchanged

SpecBerr == InitBerr /\ [][BerrApply]_vars

(***************************************************************************)
(* Properties                                                              *)
(***************************************************************************)
\* the number held by bits lo..hi of word w
Field(w, lo, hi) == Val({b - lo : b \in w \cap (lo..hi)})

\* C5: for every frame without the RTR flag, with dlc in 0..8 and a standard
\* identifier in 0..0x7FF or an extended identifier in 0..0x1FFFFFFF, the
\* frame decoded from the buffer register values the encoder wrote has the
\* same extended flag and identifier, the same dlc, and the same data bytes
\* data[0..dlc).
C5_RoundTrip ==
    (fout.step = "decoded" /\ And(fin.cf.can_id, CAN_RTR_FLAG) = {}) =>
        /\ fout.cf.can_id = fin.cf.can_id
        /\ fout.cf.can_dlc = fin.cf.can_dlc
        /\ \A i \in 1..fin.cf.can_dlc : fout.cf.data[i] = fin.cf.data[i]

\* an extended data frame with identifier bit 28 set and eight non-zero
\* bytes, written over registers that held other values, has been decoded
C5_Witness ==
    /\ fout.step = "decoded"
    /\ And(fin.cf.can_id, CAN_RTR_FLAG) = {}
    /\ And(fin.cf.can_id, CAN_EFF_FLAG) # {}
    /\ 28 \in fin.cf.can_id
    /\ fin.cf.can_dlc = 8
    /\ fin.cf.data[8] # {}
    /\ fin.buf # ZeroBuf
    /\ fout.cf.data[8] = fin.cf.data[8]

\* C6: for every frame with the RTR flag set (standard or extended) and
\* dlc = N in 0..8, the frame decoded from what the encoder wrote has the
\* RTR flag, the same identifier and extended flag, dlc = N, and all eight
\* data bytes zero, whatever data the original carried.
C6_RtrRoundTrip ==
    (fout.step = "decoded" /\ And(fin.cf.can_id, CAN_RTR_FLAG) # {}) =>
        /\ And(fout.cf.can_id, CAN_RTR_FLAG) # {}
        /\ fout.cf.can_id = fin.cf.can_id
        /\ fout.cf.can_dlc = fin.cf.can_dlc
        /\ \A i \in 1..8 : fout.cf.data[i] = {}

\* a standard remote frame with dlc 8 that carried non-zero data has been
\* decoded
C6_Witness ==
    /\ fout.step = "decoded"
    /\ And(fin.cf.can_id, CAN_RTR_FLAG) # {}
    /\ And(fin.cf.can_id, CAN_EFF_FLAG) = {}
    /\ fin.cf.can_dlc = 8
    /\ \A i \in 1..8 : fin.cf.data[i] # {}
    /\ fout.cf.can_dlc = 8

\* C7: for brp in 1..64, sjw in 1..4, prop_seg + phase_seg1 in 1..16,
\* phase_seg2 in 1..8 and either triple-sampling setting, the timing register
\* value has brp-1 in bits 0-9, sjw-1 in bits 14-15, seg1-1 in bits 16-19,
\* seg2-1 in bits 20-22, the triple-sampling flag in bit 23 and every other
\* bit zero.
C7_BitTimingFields ==
    (fout.step = "cfg") =>
        /\ Field(fout.cfg, 0, 9) = fin.bt.brp - 1
        /\ Field(fout.cfg, 14, 15) = fin.bt.sjw - 1
        /\ Field(fout.cfg, 16, 19) = fin.bt.prop_seg + fin.bt.phase_seg1 - 1
        /\ Field(fout.cfg, 20, 22) = fin.bt.phase_seg2 - 1
        /\ (23 \in fout.cfg) = (And(fin.ctrlmode, CAN_CTRLMODE_3_SAMPLES) # {})
        /\ fout.cfg \cap ((10..13) \cup (24..31)) = {}

\* the largest value of every field, with triple sampling, has been encoded
C7_Witness ==
    /\ fout.step = "cfg"
    /\ fin.bt.brp = brp_max
    /\ fin.bt.sjw = sjw_max
    /\ fin.bt.prop_seg + fin.bt.phase_seg1 = tseg1_max
    /\ fin.bt.phase_seg2 = tseg2_max
    /\ And(fin.ctrlmode, CAN_CTRLMODE_3_SAMPLES) # {}
    /\ Field(fout.cfg, 14, 15) = 3

\* C8: on a bus-error interrupt, whatever the captured error code, the
\* diagnostic frame carries exactly one protocol-error subtype: bit error if
\* the bit-error flag is set, else form error if the form-error flag is set,
\* else stuff error if the stuff-error flag is set, else unspecified together
\* with the segment code as the location.
C8_SubtypePriority ==
    (fout.step = "err" /\ And(fin.isrc, BUS_ERR) # {}) =>
        LET d2 == fout.r.cf.data[D(2)] \ CAN_ERR_PROT_TX
            d3 == fout.r.cf.data[D(3)]
            bit == And(fin.ecc, BIT_ERR) # {}
            form == And(fin.ecc, FORM_ERR) # {}
            stuff == And(fin.ecc, STUFF_ERR) # {}
        IN  /\ bit => d2 = CAN_ERR_PROT_BIT /\ d3 = {}
            /\ (~bit /\ form) => d2 = CAN_ERR_PROT_FORM /\ d3 = {}
            /\ (~bit /\ ~form /\ stuff) => d2 = CAN_ERR_PROT_STUFF /\ d3 = {}
            /\ (~bit /\ ~form /\ ~stuff) =>
                  d2 = CAN_ERR_PROT_UNSPEC /\ Val(d3) = Field(fin.ecc, 16, 20)

\* a bus error whose error code shows the bit-error and the form-error flag
\* together has been reported as a bit error
C8_Witness ==
    /\ fout.step = "err"
    /\ And(fin.isrc, BUS_ERR) # {}
    /\ And(fin.ecc, BIT_ERR) # {}
    /\ And(fin.ecc, FORM_ERR) # {}
    /\ fout.r.cf.data[D(2)] \ CAN_ERR_PROT_TX = CAN_ERR_PROT_BIT

C3_ModeTimeout ==
    \A c \in Ctx :
        /\ loc[c].i <= MODE_POLL_MAX
        /\ pc[c] \in {"rst_fail", "nrm_fail"} =>
              /\ loc[c].i = MODE_POLL_MAX
              /\ obs.call[c].writes = MODE_POLL_MAX
              /\ priv.state = obs.call[c].state
              /\ reg.inten = obs.call[c].inten
              /\ And(reg.msel, Or(LOOPBACK_MODE, LISTEN_ONLY_MODE)) = obs.call[c].mode

\* set_reset_mode has timed out on a controller that stays out of reset mode
C3_Witness ==
    /\ pc["cfg"] = "rst_fail"
    /\ hw.mode_stuck
    /\ And(reg.msel, RESET_MODE) = {}
    /\ obs.call["cfg"].writes = MODE_POLL_MAX

\* C10: every write of the bit-timing register finds the reset bit of the
\* mode register set.
C10_BtimeInReset == obs.btime_in_reset

\* C4: when the Error State Machine is entered with Controller Mode BusOff,
\* the error-warning bit in the interrupt source and the bus-off bit in the
\* status, it does not call the bus-off notification, and the mode it commits
\* is BusOff.
C4_BusOffIdempotent ==
    (/\ obs.err.done
     /\ obs.err.entry = CAN_STATE_BUS_OFF
     /\ And(obs.err.isrc, ERR_WRN) # {}
     /\ And(obs.err.status, BUS_OFF) # {}) =>
        /\ obs.err.notified = 0
        /\ obs.err.state = CAN_STATE_BUS_OFF

\* C2: a dispatcher call on an interrupt source that never clears comes to
\* its return.
C2_Returns == (hw.int_stuck /\ obs.irq_ret = "running") ~> (obs.irq_ret # "running")

\* C2: a dispatcher call that has returned, on a present controller whose
\* interrupt source never clears, has made exactly 20 loop iterations and 20
\* acknowledge writes.
C2_ExactlyTwenty ==
    (/\ hw.int_stuck
     /\ ~hw.absent
     /\ obs.irq_calls > 0
     /\ pc["irq"] = "idle") =>
        /\ obs.iters = SUNXI_CAN_MAX_IRQ
        /\ obs.acks = SUNXI_CAN_MAX_IRQ

\* C1: while a transmit request has been written and its TX-complete
\* interrupt has not been handled, the outbound queue is stopped.
C1_QueueStoppedInFlight == (obs.requests > obs.retired) => dev.queue_stopped

\* C11: command-register writes are mutually exclusive: at most one context
\* is between taking and releasing the command-register lock, a context holds
\* the lock exactly while it stands at the single write or at the release
\* that follows it (so never in a buffer-ready or mode poll), and at the
\* release the command register holds the one value it wrote.
C11_CmdregExclusive ==
    /\ Cardinality({c \in Ctx : pc[c] \in {"cmd_write", "cmd_unlock"}}) <= 1
    /\ \A c \in Ctx : (pc[c] \in {"cmd_write", "cmd_unlock"}) <=> (priv.cmdreg_lock = c)
    /\ \A c \in Ctx : pc[c] = "cmd_unlock" => reg.cmd = loc[c].val

\* the transmit context holds the lock for its transmit request while the
\* dispatcher waits for it with a release of the receive buffer
C11_Witness ==
    /\ priv.cmdreg_lock = "tx"
    /\ pc["tx"] = "cmd_write"
    /\ loc["tx"].val = TRANS_REQ
    /\ pc["irq"] = "cmd_lock"
    /\ loc["irq"].val = RELEASE_RBUF

\* C12: on a started controller, a step puts Controller Mode into Stopped
\* only if it is a step of the configuration context inside the
\* set_reset_mode call of sunxi_can_start.
C12_StoppedOnlyByStart ==
    [][(priv.state # CAN_STATE_STOPPED /\ priv'.state = CAN_STATE_STOPPED) =>
          /\ pc["cfg"] = "rst_check"
          /\ pc'["cfg"] # pc["cfg"]
          /\ loc["cfg"].ret # <<>>
          /\ Head(loc["cfg"].ret) = "start_errc"]_vars

\* C13: every frame read from the receive buffer registers gets exactly one
\* release-receive-buffer command: the releases written equal the frames
\* taken, less the one whose release is about to be written; the release is
\* queued by the step that has read the whole frame, and it has been written
\* when the frame is delivered, before the status register is read again;
\* the delivery adds one to rx_packets and the decoded dlc to rx_bytes.
C13_ReleasedOnce ==
    /\ [](obs.rx_released
            + (IF pc["irq"] \in {"cmd_lock", "cmd_write"} /\ loc["irq"].val = RELEASE_RBUF
               THEN 1 ELSE 0)
          = obs.rx_taken)
    /\ [][(pc["irq"] = "rx_alloc" /\ obs'.rx_taken # obs.rx_taken) =>
             /\ obs'.rx_taken = obs.rx_taken + 1
             /\ loc'["irq"].cf = DecodeFrame(ReadRxBuf)
             /\ pc'["irq"] = "cmd_lock"
             /\ loc'["irq"].val = RELEASE_RBUF]_vars
    /\ [][(pc["irq"] = "rx_deliver" /\ pc'["irq"] # "rx_deliver") =>
             /\ obs.rx_released = obs.rx_taken
             /\ pc'["irq"] = "rx_sta"
             /\ dev'.stats = AddStats(dev.stats,
                                      [rx_packets |-> 1,
                                       rx_bytes |-> loc["irq"].cf.can_dlc])]_vars

\* a remote frame of length 3 has been taken and its buffer released
C13_Witness ==
    /\ pc["irq"] = "rx_deliver"
    /\ And(loc["irq"].cf.can_id, CAN_RTR_FLAG) # {}
    /\ loc["irq"].cf.can_dlc = 3
    /\ obs.rx_taken = 1
    /\ obs.rx_released = 1
    /\ hw.rxq = <<>>

\* C14: after sunxi_can_rx has failed to allocate a frame, the dispatcher
\* does not call it again in the same invocation.
C14_NoRetry == ~(obs.rx_nomem /\ pc["irq"] = "rx_alloc")

\* C15: a step of the interrupt context writes Controller Mode only at the
\* end of sunxi_can_err, once per call, with the value that the mode read at
\* entry, the interrupt-source snapshot and the status snapshot determine;
\* every other step of the dispatcher leaves Controller Mode as it is; and a
\* call that finds no skb for the diagnostic frame leaves Controller Mode
\* and the statistics as they are.
C15_SingleCommit ==
    [][(pc'["irq"] # pc["irq"]) =>
          /\ pc["irq"] # "err_commit" => priv'.state = priv.state
          /\ pc["irq"] = "err_commit" =>
                /\ ~obs.err.done
                /\ obs'.err.done
                /\ priv'.state =
                      ErrNextState(obs.err.isrc, obs.err.status, obs.err.entry)
          /\ (pc["irq"] = "err_entry" /\ pc'["irq"] = "idle") =>
                /\ priv' = priv
                /\ dev' = dev]_vars

\* the Error State Machine has committed ErrorWarning after a transmit call
\* had changed the mode under it
C15_Witness ==
    /\ obs.err.done
    /\ obs.err.entry # obs.err.cur
    /\ obs.err.state = CAN_STATE_ERROR_WARNING
    /\ priv.state = CAN_STATE_ERROR_WARNING

\* C16: when the interrupt-source snapshot has the data-overrun bit, the
\* diagnostic frame has the controller-error class and the RX-overflow
\* subtype in data[1], rx_over_errors is incremented by one, rx_errors by
\* one for the overrun, and the clear-overrun command is issued.
C16_OverrunSubtype ==
    (fout.step = "err" /\ And(fin.isrc, DATA_ORUNI) # {}) =>
        /\ And(fout.r.cf.can_id, CAN_ERR_CRTL) # {}
        /\ And(fout.r.cf.data[D(1)], CAN_ERR_CRTL_RX_OVERFLOW) # {}
        /\ fout.r.rx_over_errors = 1
        /\ fout.r.rx_errors - fout.r.bus_error = 1
        /\ fout.r.clear_overrun

\* C17: when set_normal_mode has succeeded and the configuration context has
\* come back from it, the loopback bit of the mode register is set exactly
\* when the loopback flag is, the listen-only bit exactly when the
\* listen-only flag is, and the bus-error interrupt is enabled exactly when
\* the error-reporting flag is.
C17_ModeBitsFollowConfig ==
    (\/ pc["cfg"] \in {"open_done", "mode_wake"}
     \/ pc["cfg"] = "idle" /\ priv.open_time) =>
        /\ (And(reg.msel, LOOPBACK_MODE) # {})
              <=> (And(priv.ctrlmode, CAN_CTRLMODE_LOOPBACK) # {})
        /\ (And(reg.msel, LISTEN_ONLY_MODE) # {})
              <=> (And(priv.ctrlmode, CAN_CTRLMODE_LISTENONLY) # {})
        /\ (And(reg.inten, BERR_IRQ_EN) # {})
              <=> (And(priv.ctrlmode, CAN_CTRLMODE_BERR_REPORTING) # {})

\* C18: on an arbitration-lost interrupt the arbitration-lost counter and
\* tx_errors are incremented by one each, and data[0] of the diagnostic frame
\* is the captured bit position.
C18_ArbPosition ==
    (fout.step = "arb") =>
        /\ fout.r.arbitration_lost = 1
        /\ fout.r.tx_errors = 1
        /\ And(fout.r.cf.can_id, CAN_ERR_LOSTARB) # {}
        /\ Val(fout.r.cf.data[D(0)]) = fin.pos

\* C19: a call of the Error State Machine that calls the bus-off
\* notification and marks bus-off in the diagnostic frame commits BusOff.
C19_BusOffCommitted ==
    (/\ fout.step = "err"
     /\ fout.r.bus_off = 1
     /\ And(fout.r.cf.can_id, CAN_ERR_BUSOFF) # {}) =>
        fout.r.state = CAN_STATE_BUS_OFF

\* C20: a transmit call that no other context interleaves with, and whose
\* two mode polls settle, has Controller Mode Stopped between its two polls
\* and ErrorActive from the end of the second poll to its return and after,
\* whatever the mode was before the call.
C20_XmitErasesErrorState ==
    /\ pc["tx"] = "tx_acpm" => priv.state = CAN_STATE_STOPPED
    /\ (pc["tx"] \in {"tx_drop", "tx_enc", "tx_wait2", "cmd_lock", "cmd_write", "cmd_unlock"}
        \/ (pc["tx"] = "idle" /\ obs.xmits > 0)) =>
          priv.state = CAN_STATE_ERROR_ACTIVE

\* a transmit call entered in BusOff has returned in ErrorActive, with no
\* error interrupt raised meanwhile
C20_Witness ==
    /\ fin.kind = "tx"
    /\ fin.state = CAN_STATE_BUS_OFF
    /\ pc["tx"] = "idle"
    /\ obs.xmits > 0
    /\ obs.requests > 0
    /\ priv.state = CAN_STATE_ERROR_ACTIVE
    /\ And(reg.int, ErrorBits) = {}

\* C21: each transmit request is accounted once: over any sequence of
\* dispatcher invocations (those that leave the loop on a failed
\* diagnostic-frame allocation, without the acknowledge, included) the number
\* of TX-complete handlings, and with it tx_packets, never exceeds the number
\* of transmit requests written to the command register.
C21_TxAccountedOnce ==
    /\ obs.retired <= obs.requests
    /\ dev.stats.tx_packets <= obs.requests

\* C22: for every value of the error counter register, the counters
\* sunxi_can_get_berr_counter reports are the transmit count (bits 0-7) and
\* the receive count (bits 16-23) the Error State Machine takes from the
\* same value.
C22_BerrMatchesErr ==
    fout.step = "berr" =>
        /\ fout.bec.txerr = ErrCounters(fin.errc).txerr
        /\ fout.bec.rxerr = ErrCounters(fin.errc).rxerr

=============================================================================
